---------------------------- MODULE Spec2Model ----------------------------
(* Poisoning state machine of poison-guard: the tagged PoisonState, the    *)
(* Poison<T> container, PoisonGuard (both checkout disciplines),           *)
(* PoisonRecover and PoisonScope, for one container used by one thread.    *)
EXTENDS Integers, FiniteSets, Sequences, TLC

(* ------------------------------ bounds ------------------------------- *)
MaxVal == 1
MaxLoc == 2
MaxErr == 2
MaxMsg == 1
MaxAttempts == 2
MaxPolls == 2
NumWorkers == 2

Values == 0..MaxVal
Locs == 1..MaxLoc
Errs == 1..MaxErr
Msgs == 1..MaxMsg

(* ----------------------- PoisonState (error.rs) ---------------------- *)
(* Option<Box<dyn Any + Send>>: None, a &'static str, a String, or any   *)
(* other payload type.                                                    *)
NoPayload == [kind |-> "None", msg |-> 0]
Payloads ==
    [kind : {"str", "String"}, msg : Msgs] \cup {[kind |-> "other", msg |-> 0]}

(* enum PoisonStateInner: the tag, the location and the captured         *)
(* payload or source (0 when the variant carries none).                   *)
PoisonStateInner ==
    [tag : {"CapturedPanic"}, location : Locs, cause : Msgs]
    \cup [tag : {"UnknownPanic", "UnknownErr", "Sentinel"}, location : Locs, cause : {0}]
    \cup [tag : {"CapturedErr"}, location : Locs, cause : Errs]
    \cup [tag : {"Unpoisoned"}, location : {0}, cause : {0}]

from_unpoisoned == [tag |-> "Unpoisoned", location |-> 0, cause |-> 0]

(* mutant: the source of the error is dropped                             *)
from_err_unknown(location, err) ==
    [tag |-> "UnknownErr", location |-> location, cause |-> 0]

from_err(location, err) ==
    IF err # 0
    THEN [tag |-> "CapturedErr", location |-> location, cause |-> err]
    ELSE [tag |-> "UnknownErr", location |-> location, cause |-> 0]

from_panic(location, panic) ==
    IF panic.kind \in {"str", "String"}
    THEN [tag |-> "CapturedPanic", location |-> location, cause |-> panic.msg]
    ELSE [tag |-> "UnknownPanic", location |-> location, cause |-> 0]

(* mutant: the sentinel is only set over a poisoned state                 *)
then_to_sentinel_lazy(s, caller) ==
    IF s.tag = "Unpoisoned" THEN s
    ELSE [tag |-> "Sentinel", location |-> caller, cause |-> 0]

(* `caller` stands for Location::caller() of the #[track_caller] chain.  *)
then_to_sentinel(s, caller) ==
    [tag |-> "Sentinel", location |-> caller, cause |-> 0]

(* mutant: an existing poison is kept instead of being replaced            *)
then_to_err_keep(s, err, caller) ==
    IF s.tag \in {"CapturedErr", "UnknownErr", "CapturedPanic", "UnknownPanic"} /\ err # 0
    THEN s
    ELSE from_err(IF s.tag = "Sentinel" THEN s.location ELSE caller, err)

then_to_err(s, err, caller) ==
    from_err(IF s.tag = "Sentinel" THEN s.location ELSE caller, err)

(* mutant: the sentinel's location is not carried over                    *)
then_to_panic_caller(s, panic, caller) == from_panic(caller, panic)

(* mutant: an error poison is left as it is                               *)
then_to_panic_keep(s, panic, caller) ==
    IF s.tag \in {"UnknownErr", "CapturedErr"} THEN s
    ELSE from_panic(IF s.tag = "Sentinel" THEN s.location ELSE caller, panic)

then_to_panic(s, panic, caller) ==
    from_panic(IF s.tag = "Sentinel" THEN s.location ELSE caller, panic)

(* mutant: the sentinel is never cleared                                  *)
then_to_unpoisoned_never(s) == s

then_to_unpoisoned(s) ==
    IF s.tag = "Sentinel" THEN from_unpoisoned ELSE s

(* mutant: an error poison without a cause does not stop a scope         *)
is_unpoisoned_or_sentinel_or_err(s) == s.tag \in {"Unpoisoned", "Sentinel", "UnknownErr"}

is_unpoisoned_or_sentinel(s) == s.tag \in {"Unpoisoned", "Sentinel"}

(* mutant: the sentinel is taken for an unpoisoned state                   *)
is_unpoisoned_lax(s) == is_unpoisoned_or_sentinel(s)

is_unpoisoned(s) == s.tag = "Unpoisoned"

(* mutant: only the captured failures count as poison                     *)
is_poisoned_lax(s) == s.tag \notin {"Unpoisoned", "Sentinel"}

is_poisoned(s) == ~is_unpoisoned(s)

(* mutant: the error is built from scratch, not from the state          *)
to_error_blank(s) == from_unpoisoned

(* PoisonError(self.0.clone()): the error is a copy of the state          *)
to_error(s) == [tag |-> s.tag, location |-> s.location, cause |-> s.cause]

(* state.unpoison(), used by PoisonGuard::unpoison_now                    *)
unpoison(s) == from_unpoisoned

(* -------------------------- PoisonGuard (guard.rs) -------------------- *)
(* mutant: the checkout leaves no sentinel                                *)
poison_on_unwind_unmarked(s, caller) == s

poison_on_unwind(s, caller) == then_to_sentinel(s, caller)

(* mutant: the strict checkout only leaves the sentinel                   *)
poison_now_sentinel(s, caller) == then_to_sentinel(s, caller)

poison_now(s, caller) == then_to_err(s, 0, caller)

(* mutant: the finalizer leaves the state alone on a normal release       *)
PoisonGuard_drop_idle(s, unwinding, caller) ==
    IF unwinding THEN then_to_panic(s, NoPayload, caller) ELSE s

(* mutant: the finalizer does not look at thread::panicking()            *)
PoisonGuard_drop_unaware(s, unwinding, caller) == then_to_unpoisoned(s)

(* mutant: the test of thread::panicking() is inverted                    *)
PoisonGuard_drop_inverted(s, unwinding, caller) ==
    IF ~unwinding THEN then_to_panic(s, NoPayload, caller) ELSE then_to_unpoisoned(s)

PoisonGuard_drop(s, unwinding, caller) ==
    IF unwinding THEN then_to_panic(s, NoPayload, caller) ELSE then_to_unpoisoned(s)

(* mutant: unpoison_if_guarded is called in place of unpoison             *)
unpoison_now_if_guarded(s, unwinding, caller) ==
    PoisonGuard_drop(then_to_unpoisoned(s), unwinding, caller)

(* the guard is taken by value: its finalizer runs as the function ends   *)
unpoison_now(s, unwinding, caller) ==
    PoisonGuard_drop(unpoison(s), unwinding, caller)

(* mutant: the finalizer calls unpoison in place of unpoison_if_guarded   *)
poison_with_error_cleared(s, e, unwinding, caller) ==
    IF unwinding THEN then_to_panic(then_to_err(s, e, caller), NoPayload, caller)
    ELSE unpoison(then_to_err(s, e, caller))

poison_with_error(s, e, unwinding, caller) ==
    PoisonGuard_drop(then_to_err(s, e, caller), unwinding, caller)

(* ------------------------------ state -------------------------------- *)
VARIABLES
    value,       \* Poison::value
    state,       \* Poison::state
    handle,      \* the live handle on the container, if any
    panicking,   \* thread::panicking()
    in_flight,   \* payload of the panic that is unwinding
    abandoned,   \* a handle was leaked and no recovery was performed since
    recovered,   \* a recovery was performed since the container last sat poisoned with no handle
    last,        \* the operation that produced this state
    lock,        \* the thread that holds the Mutex around the container, if any
    pc,          \* where each thread of the Mutex programs stands
    frame        \* the frame of init_unwind_safe / try_init_unwind_safe

vars == <<value, state, handle, panicking, in_flight, abandoned, recovered, last, lock, pc, frame>>

(* the length of the array the initializer fills, 16 in tests/guard.rs    *)
MaxElems == 4

Elems == 1..MaxElems

(* no call of init_unwind_safe / try_init_unwind_safe has been made.      *)
(* uninit: the Option<MaybeUninit<T>> is Some; on_unwind: the guard still *)
(* holds its closure; i: the state S shared by both closures; elems[k]:   *)
(* element k was written; finalized[k]: times the cleanup closure ran     *)
(* drop_in_place on element k; dropped[k]: times T's destructor ran on    *)
(* element k outside the cleanup closure; cleanups: times the cleanup     *)
(* closure was called.                                                     *)
NoFrame ==
    [at |-> "idle", fallible |-> FALSE, fail_at |-> 0, how |-> "none", cleanup |-> "none",
     uninit |-> FALSE, on_unwind |-> FALSE, i |-> 0,
     elems |-> [k \in Elems |-> FALSE],
     finalized |-> [k \in Elems |-> 0],
     dropped |-> [k \in Elems |-> 0],
     cleanups |-> 0, out |-> "none"]

(* the threads of the Mutex programs: the spawned workers and the thread  *)
(* that joins them                                                         *)
Workers == 1..NumWorkers
Main == 0
Threads == Workers \cup {Main}
NoThread == -1

NoHandle ==
    [kind |-> "none", recover_to_poison_now |-> FALSE, discipline |-> "none",
     origin |-> 0, via |-> "none", wrote |-> -1, attempts |-> 0,
     shadow |-> from_unpoisoned, stepped |-> FALSE, failed |-> FALSE,
     future |-> "none", polls |-> 0, borrow |-> "none", since_unwinding |-> FALSE]

(* a live PoisonGuard; discipline, origin and via record which constructor *)
(* made it, where, and for which operation; since_unwinding, whether the   *)
(* thread was already unwinding when it was made                           *)
Guard(via, discipline, origin) ==
    [NoHandle EXCEPT !.kind = "guard", !.discipline = discipline, !.origin = origin,
                     !.via = via, !.since_unwinding = panicking]

(* PoisonRecover::recover_to_poison_on_unwind / recover_to_poison_now     *)
recover_to_poison_on_unwind == [NoHandle EXCEPT !.kind = "recover"]

recover_to_poison_now ==
    [NoHandle EXCEPT !.kind = "recover", !.recover_to_poison_now = TRUE]

Log(op, ok, at, arg, err) ==
    [op |-> op, ok |-> ok, at |-> at, arg |-> arg, err |-> err,
     pre |-> state, pre_value |-> value, h |-> handle, unwinding |-> panicking,
     ran |-> FALSE, f |-> "none", out |-> "none"]

(* history: "poisoned" once the container sits poisoned with no handle,    *)
(* "recovered" once a recovery operation was performed after that          *)
Settle(h, s, was) ==
    IF h.kind = "none" /\ s.tag # "Unpoisoned" THEN "poisoned" ELSE was

(* ------------------------------ Init --------------------------------- *)
(* what a caller's closure does: it returns Ok, returns Err(e) or unwinds *)
(* with p                                                                  *)
Outcomes ==
    {[kind |-> "ok", e |-> 0, p |-> NoPayload]}
    \cup {[kind |-> "err", e |-> e, p |-> NoPayload] : e \in Errs}
    \cup {[kind |-> "panic", e |-> 0, p |-> p] : p \in Payloads}

(* <i32 as Default>::default()                                            *)
T_default == 0

Poison_new(v) == [value |-> v, state |-> from_unpoisoned]

(* the initializer returns v or unwinds                                   *)
Poison_new_catch_unwind(out, v, caller) ==
    IF out.kind = "panic"
    THEN [value |-> T_default, state |-> from_panic(caller, out.p)]
    ELSE [value |-> v, state |-> from_unpoisoned]

(* mutant: an initializer's error is dropped                              *)
Poison_try_new_catch_unwind_lossy(out, v, caller) ==
    CASE out.kind = "panic" -> [value |-> T_default, state |-> from_panic(caller, out.p)]
      [] out.kind = "err" -> [value |-> T_default, state |-> from_unpoisoned]
      [] OTHER -> [value |-> v, state |-> from_unpoisoned]

(* the initializer returns Ok(v), returns Err(e) or unwinds               *)
Poison_try_new_catch_unwind(out, v, caller) ==
    CASE out.kind = "panic" -> [value |-> T_default, state |-> from_panic(caller, out.p)]
      [] out.kind = "err" -> [value |-> T_default, state |-> from_err(caller, out.e)]
      [] OTHER -> [value |-> v, state |-> from_unpoisoned]

(* the container as one of the three constructors makes it                *)
Constructed ==
    {[op |-> "new", out |-> "ok", at |-> 0, arg |-> v, made |-> Poison_new(v)] :
        v \in Values}
    \cup {[op |-> "new_catch_unwind", out |-> out.kind, at |-> at,
           arg |-> IF out.kind = "panic" THEN out.p.msg ELSE v,
           made |-> Poison_new_catch_unwind(out, v, at)] :
              out \in {o \in Outcomes : o.kind # "err"}, v \in Values, at \in Locs}
    \cup {[op |-> "try_new_catch_unwind", out |-> out.kind, at |-> at,
           arg |-> CASE out.kind = "panic" -> out.p.msg
                     [] out.kind = "err" -> out.e
                     [] OTHER -> v,
           made |-> Poison_try_new_catch_unwind(out, v, at)] :
              out \in Outcomes, v \in Values, at \in Locs}

(* Poison::new, Poison::new_catch_unwind, Poison::try_new_catch_unwind    *)
Init ==
    \E c \in Constructed :
        /\ value = c.made.value
        /\ state = c.made.state
        /\ handle = NoHandle
        /\ panicking = FALSE
        /\ in_flight = NoPayload
        /\ abandoned = FALSE
        /\ recovered = Settle(NoHandle, c.made.state, "clean")
        /\ last = [op |-> c.op, ok |-> c.out = "ok", at |-> c.at, arg |-> c.arg,
                   err |-> from_unpoisoned, pre |-> c.made.state,
                   pre_value |-> c.made.value, h |-> NoHandle, unwinding |-> FALSE,
                   ran |-> FALSE, f |-> "none", out |-> c.out]
        /\ lock = NoThread
        /\ pc = [t \in Threads |-> "start"]
        /\ frame = NoFrame

(* ----------------------------- checkouts ----------------------------- *)
(* Poison::on_unwind: the lenient checkout                                *)
on_unwind(at) ==
    /\ handle.kind = "none"
    /\ IF is_poisoned(state)
       THEN /\ handle' = recover_to_poison_on_unwind
            /\ state' = state
            /\ last' = Log("on_unwind", FALSE, at, 0, state)
       ELSE /\ handle' = Guard("on_unwind", "lenient", at)
            /\ state' = poison_on_unwind(state, at)
            /\ last' = Log("on_unwind", TRUE, at, 0, from_unpoisoned)
    /\ UNCHANGED <<value, panicking, in_flight, abandoned, recovered>>

(* Poison::unless_recovered: the strict checkout                          *)
unless_recovered(at) ==
    /\ handle.kind = "none"
    /\ IF is_poisoned(state)
       THEN /\ handle' = recover_to_poison_now
            /\ state' = state
            /\ last' = Log("unless_recovered", FALSE, at, 0, state)
       ELSE /\ handle' = Guard("unless_recovered", "strict", at)
            /\ state' = poison_now(state, at)
            /\ last' = Log("unless_recovered", TRUE, at, 0, from_unpoisoned)
    /\ UNCHANGED <<value, panicking, in_flight, abandoned, recovered>>

(* --------------------------- guard operations ------------------------- *)
(* DerefMut for PoisonGuard: the caller mutates the value                 *)
write(v) ==
    /\ handle.kind = "guard"
    /\ value' = v
    /\ handle' = [handle EXCEPT !.wrote = v]
    /\ last' = Log("write", TRUE, 0, v, from_unpoisoned)
    /\ UNCHANGED <<state, panicking, in_flight, abandoned, recovered>>

(* Drop for PoisonGuard: the guard goes out of scope                      *)
(* mutant: the finalizer hands the payload of the unwind to the state     *)
drop_guard_captured(at) ==
    /\ handle.kind = "guard"
    /\ state' = IF panicking THEN then_to_panic(state, in_flight, at)
                ELSE then_to_unpoisoned(state)
    /\ handle' = NoHandle
    /\ recovered' = Settle(handle', state', recovered)
    /\ last' = Log("drop_guard", TRUE, at, 0, from_unpoisoned)
    /\ UNCHANGED <<value, panicking, in_flight, abandoned>>

(* mutant: only an unwind that began during the checkout poisons          *)
drop_guard_since_checkout(at) ==
    /\ handle.kind = "guard"
    /\ state' = PoisonGuard_drop(state, panicking /\ ~handle.since_unwinding, at)
    /\ handle' = NoHandle
    /\ recovered' = Settle(handle', state', recovered)
    /\ last' = Log("drop_guard", TRUE, at, 0, from_unpoisoned)
    /\ UNCHANGED <<value, panicking, in_flight, abandoned>>

drop_guard(at) ==
    /\ handle.kind = "guard"
    /\ state' = PoisonGuard_drop(state, panicking, at)
    /\ handle' = NoHandle
    /\ recovered' = Settle(handle', state', recovered)
    /\ last' = Log("drop_guard", TRUE, at, 0, from_unpoisoned)
    /\ UNCHANGED <<value, panicking, in_flight, abandoned>>

(* mem::forget(guard): the finalizer never runs                           *)
forget_guard ==
    /\ handle.kind = "guard"
    /\ handle' = NoHandle
    /\ abandoned' = TRUE
    /\ recovered' = Settle(handle', state, recovered)
    /\ last' = Log("forget_guard", TRUE, 0, 0, from_unpoisoned)
    /\ UNCHANGED <<value, state, panicking, in_flight>>

(* Poison::recover(guard), Poison::try_recover(Ok(..), guard)             *)
recover_guard(at) ==
    /\ handle.kind = "guard"
    /\ state' = unpoison_now(state, panicking, at)
    /\ handle' = NoHandle
    /\ abandoned' = FALSE
    /\ recovered' = Settle(handle', state', "recovered")
    /\ last' = Log("recover_guard", TRUE, at, 0, from_unpoisoned)
    /\ UNCHANGED <<value, panicking, in_flight>>

(* Poison::try_recover(Err(e), guard): explicit poison with an error      *)
poison_guard(e, at) ==
    /\ handle.kind = "guard"
    /\ state' = poison_with_error(state, e, panicking, at)
    /\ handle' = NoHandle
    /\ recovered' = Settle(handle', state', recovered)
    /\ last' = Log("poison_guard", FALSE, at, e, to_error(then_to_err(state, e, at)))
    /\ UNCHANGED <<value, panicking, in_flight, abandoned>>

(* -------------------------- PoisonRecover (recover.rs) ---------------- *)
(* iter().sum() over the transactions of an Account                       *)
RECURSIVE SumSeq(_)
SumSeq(q) == IF q = <<>> THEN 0 ELSE Head(q) + SumSeq(Tail(q))

(* the closures handed to recover_with and to the steps of a scope: one   *)
(* that leaves the value, one that changes it; "sum" is the repair of     *)
(* examples/mutex.rs, acc.total = acc.txns.iter().sum()                    *)
Closures == {"keep", "inc"}

(* what a caller's closure does with its &mut T                           *)
Apply(f, v) ==
    IF f = "inc" THEN (v + 1) % (MaxVal + 1)
    ELSE IF f = "sum" THEN [v EXCEPT !.total = SumSeq(v.txns)]
    ELSE v

(* mutant: the handle is turned into a guard without touching the state   *)
PoisonRecover_recover_keep(s, caller) == s

PoisonRecover_recover(s, caller) == poison_on_unwind(s, caller)

(* mutant: recover_to_poison_now is ignored                               *)
PoisonRecover_recover_with_lenient(s, to_poison_now, caller) ==
    poison_on_unwind(s, caller)

PoisonRecover_recover_with(s, to_poison_now, caller) ==
    IF to_poison_now THEN poison_now(s, caller) ELSE poison_on_unwind(s, caller)

(* mutant: a successful repair always returns a lenient guard             *)
PoisonRecover_try_recover_with_lenient(s, to_poison_now, e, caller) ==
    IF e = 0
    THEN poison_on_unwind(then_to_unpoisoned(s), caller)
    ELSE then_to_err(s, e, caller)

PoisonRecover_try_recover_with(s, to_poison_now, e, caller) ==
    IF e = 0
    THEN IF to_poison_now
         THEN poison_now(s, caller)
         ELSE poison_on_unwind(then_to_unpoisoned(s), caller)
    ELSE then_to_err(s, e, caller)

(* mutant: recovery puts the default value back                           *)
recover_reset(at) ==
    /\ handle.kind = "recover"
    /\ value' = 0
    /\ state' = PoisonRecover_recover(state, at)
    /\ handle' = Guard("recover", "lenient", at)
    /\ abandoned' = FALSE
    /\ recovered' = "recovered"
    /\ last' = Log("recover", TRUE, at, 0, from_unpoisoned)
    /\ UNCHANGED <<panicking, in_flight>>

(* mutant: recover() hands out the guard of the checkout that failed     *)
recover_as_checkout(at) ==
    /\ handle.kind = "recover"
    /\ state' = PoisonRecover_recover_with(state, handle.recover_to_poison_now, at)
    /\ handle' = Guard("recover",
                       IF handle.recover_to_poison_now THEN "strict" ELSE "lenient", at)
    /\ abandoned' = FALSE
    /\ recovered' = "recovered"
    /\ last' = Log("recover", TRUE, at, 0, from_unpoisoned)
    /\ UNCHANGED <<value, panicking, in_flight>>

recover(at) ==
    /\ handle.kind = "recover"
    /\ state' = PoisonRecover_recover(state, at)
    /\ handle' = Guard("recover", "lenient", at)
    /\ abandoned' = FALSE
    /\ recovered' = "recovered"
    /\ last' = Log("recover", TRUE, at, 0, from_unpoisoned)
    /\ UNCHANGED <<value, panicking, in_flight>>

(* mutant: the repair closure is not called                               *)
recover_with_unrepaired(f, at) ==
    /\ handle.kind = "recover"
    /\ value' = value
    /\ state' = PoisonRecover_recover_with(state, handle.recover_to_poison_now, at)
    /\ handle' = Guard("recover_with",
                        IF handle.recover_to_poison_now THEN "strict" ELSE "lenient", at)
    /\ abandoned' = FALSE
    /\ recovered' = "recovered"
    /\ last' = [Log("recover_with", TRUE, at, 0, from_unpoisoned) EXCEPT !.f = f]
    /\ UNCHANGED <<panicking, in_flight>>

recover_with(f, at) ==
    /\ handle.kind = "recover"
    /\ value' = Apply(f, value)
    /\ state' = PoisonRecover_recover_with(state, handle.recover_to_poison_now, at)
    /\ handle' = Guard("recover_with",
                        IF handle.recover_to_poison_now THEN "strict" ELSE "lenient", at)
    /\ abandoned' = FALSE
    /\ recovered' = "recovered"
    /\ last' = [Log("recover_with", TRUE, at, 0, from_unpoisoned) EXCEPT !.f = f]
    /\ UNCHANGED <<panicking, in_flight>>

(* e = 0: the closure returned Ok(()); otherwise Err(e)                   *)
try_recover_with(f, e, at) ==
    /\ handle.kind = "recover"
    /\ e # 0 => handle.attempts < MaxAttempts
    /\ value' = Apply(f, value)
    /\ state' = PoisonRecover_try_recover_with(state, handle.recover_to_poison_now, e, at)
    /\ IF e = 0
       THEN /\ handle' = Guard("try_recover_with",
                                IF handle.recover_to_poison_now THEN "strict" ELSE "lenient",
                                at)
            /\ abandoned' = FALSE
            /\ recovered' = "recovered"
       ELSE /\ handle' = [handle EXCEPT !.attempts = @ + 1]
            /\ UNCHANGED <<abandoned, recovered>>
    /\ last' = [Log("try_recover_with", e = 0, at, e, from_unpoisoned) EXCEPT !.f = f]
    /\ UNCHANGED <<panicking, in_flight>>

(* mutant: the PoisonRecover dropped by the unwind poisons the container  *)
recover_with_unwinds_poisons(f, p) ==
    /\ handle.kind = "recover"
    /\ ~panicking
    /\ value' = Apply(f, value)
    /\ state' = then_to_panic(state, NoPayload, 0)
    /\ handle' = NoHandle
    /\ panicking' = TRUE
    /\ in_flight' = p
    /\ recovered' = Settle(handle', state, recovered)
    /\ last' = [Log("recover_with_unwinds", FALSE, 0, 0, from_unpoisoned)
                EXCEPT !.f = f, !.out = "panic"]
    /\ UNCHANGED abandoned

(* recover_with(f) where f unwinds, after it wrote what it wrote: the     *)
(* poison_now / poison_on_unwind after f is not reached and the           *)
(* PoisonRecover is dropped by the unwind                                  *)
recover_with_unwinds(f, p) ==
    /\ handle.kind = "recover"
    /\ ~panicking
    /\ value' = Apply(f, value)
    /\ handle' = NoHandle
    /\ panicking' = TRUE
    /\ in_flight' = p
    /\ recovered' = Settle(handle', state, recovered)
    /\ last' = [Log("recover_with_unwinds", FALSE, 0, 0, from_unpoisoned)
                EXCEPT !.f = f, !.out = "panic"]
    /\ UNCHANGED <<state, abandoned>>

(* try_recover_with(f) where f unwinds: neither arm of the match on f's   *)
(* result is reached                                                       *)
try_recover_with_unwinds(f, p) ==
    /\ handle.kind = "recover"
    /\ ~panicking
    /\ value' = Apply(f, value)
    /\ handle' = NoHandle
    /\ panicking' = TRUE
    /\ in_flight' = p
    /\ recovered' = Settle(handle', state, recovered)
    /\ last' = [Log("try_recover_with_unwinds", FALSE, 0, 0, from_unpoisoned)
                EXCEPT !.f = f, !.out = "panic"]
    /\ UNCHANGED <<state, abandoned>>

(* PoisonRecover has no finalizer                                         *)
drop_recover ==
    /\ handle.kind = "recover"
    /\ handle' = NoHandle
    /\ recovered' = Settle(handle', state, recovered)
    /\ last' = Log("drop_recover", TRUE, 0, 0, from_unpoisoned)
    /\ UNCHANGED <<value, state, panicking, in_flight, abandoned>>

into_error ==
    /\ handle.kind = "recover"
    /\ handle' = NoHandle
    /\ recovered' = Settle(handle', state, recovered)
    /\ last' = Log("into_error", FALSE, 0, 0, to_error(state))
    /\ UNCHANGED <<value, state, panicking, in_flight, abandoned>>

(* ------------------------------ Poison::get --------------------------- *)
(* mutant: the reference returned is not to the value                    *)
get_result_default(s, v) ==
    IF is_poisoned(s) THEN [ok |-> FALSE, value |-> 0, err |-> to_error(s)]
    ELSE [ok |-> TRUE, value |-> T_default, err |-> from_unpoisoned]

get_result(s, v) ==
    IF is_poisoned(s) THEN [ok |-> FALSE, value |-> 0, err |-> to_error(s)]
    ELSE [ok |-> TRUE, value |-> v, err |-> from_unpoisoned]

get ==
    /\ handle.kind = "none"
    /\ last' = Log("get", get_result(state, value).ok, 0, get_result(state, value).value,
                   get_result(state, value).err)
    /\ UNCHANGED <<value, state, handle, panicking, in_flight, abandoned, recovered>>

(* -------------------------- PoisonScope (scope.rs) -------------------- *)
(* PoisonGuard::new and PoisonRecover::new as scope.rs uses them          *)
PoisonGuard_new(s, caller) == then_to_sentinel(s, caller)

PoisonRecover_new == recover_to_poison_on_unwind

(* Poison::err(guard, e): the guard is taken apart without running its    *)
(* finalizer and the container is poisoned with the error                 *)
(* mutant: the guard's finalizer runs although the guard was taken apart  *)
err_then_drop(e, at) ==
    /\ handle.kind = "guard"
    /\ state' = PoisonGuard_drop(then_to_err(state, e, at), panicking, at)
    /\ handle' = PoisonRecover_new
    /\ last' = Log("err", FALSE, at, e, from_unpoisoned)
    /\ UNCHANGED <<value, panicking, in_flight, abandoned, recovered>>

err(e, at) ==
    /\ handle.kind = "guard"
    /\ state' = then_to_err(state, e, at)
    /\ handle' = PoisonRecover_new
    /\ last' = Log("err", FALSE, at, e, from_unpoisoned)
    /\ UNCHANGED <<value, panicking, in_flight, abandoned, recovered>>

(* PoisonScope::new: the shadow is a clone of the container's state       *)
PoisonScope_new(s) == s

(* mutant: the shadow is not swapped into the container                   *)
PoisonScope_take_unswapped(shadow, s) == s

(* PoisonScope::take: the shadow is swapped into the container            *)
PoisonScope_take(shadow, s) == shadow

(* mutant: a successful step uses the sentinel up                         *)
TryCatchUnwind_into_result_disarming(shadow, out, caller) ==
    CASE out.kind = "panic" -> then_to_panic(shadow, out.p, caller)
      [] out.kind = "err" -> then_to_err(shadow, out.e, caller)
      [] OTHER -> then_to_unpoisoned(shadow)

(* mutant: a step's error is returned without being captured             *)
TryCatchUnwind_into_result_uncaptured(shadow, out, caller) ==
    CASE out.kind = "panic" -> then_to_panic(shadow, out.p, caller)
      [] OTHER -> shadow

(* Try::into_result of TryCatchUnwind: the new shadow                     *)
TryCatchUnwind_into_result(shadow, out, caller) ==
    CASE out.kind = "panic" -> then_to_panic(shadow, out.p, caller)
      [] out.kind = "err" -> then_to_err(shadow, out.e, caller)
      [] OTHER -> shadow

(* the outcomes of one poll of an asynchronous step                       *)
AsyncOutcomes == Outcomes \cup {[kind |-> "pending", e |-> 0, p |-> NoPayload]}

(* mutant: a poll records a failure at its own location                  *)
TryCatchUnwind_poll_caller(shadow, out, caller) ==
    CASE out.kind = "panic" -> from_panic(caller, out.p)
      [] out.kind = "err" -> from_err(caller, out.e)
      [] OTHER -> shadow

(* mutant: an unwind raised by a poll is recorded as an error             *)
TryCatchUnwind_poll_as_err(shadow, out, caller) ==
    CASE out.kind = "panic" -> then_to_err(shadow, 0, caller)
      [] out.kind = "err" -> then_to_err(shadow, out.e, caller)
      [] OTHER -> shadow

(* Future::poll of TryCatchUnwind: the new shadow                         *)
TryCatchUnwind_poll(shadow, out, caller) ==
    CASE out.kind = "panic" -> then_to_panic(shadow, out.p, caller)
      [] out.kind = "err" -> then_to_err(shadow, out.e, caller)
      [] OTHER -> shadow

(* mutant: the sentinel is not cleared when the scope is closed           *)
PoisonScope_poison_raw(shadow, s) == PoisonScope_take(shadow, s)

PoisonScope_poison(shadow, s) == then_to_unpoisoned(PoisonScope_take(shadow, s))

(* mutant: the sentinel is not cleared when the scope is dropped          *)
PoisonScope_drop_uncleared(shadow, s, unwinding, caller) ==
    IF unwinding THEN then_to_panic(s, NoPayload, caller) ELSE shadow

(* mutant: thread::panicking() is not consulted                           *)
PoisonScope_drop_swap(shadow, s, unwinding, caller) == then_to_unpoisoned(shadow)

PoisonScope_drop(shadow, s, unwinding, caller) ==
    IF unwinding THEN then_to_panic(s, NoPayload, caller)
    ELSE then_to_unpoisoned(shadow)

(* Poison::scope(guard)                                                   *)
scope ==
    /\ handle.kind = "guard"
    /\ handle' = [handle EXCEPT !.kind = "scope", !.via = "scope",
                                 !.since_unwinding = FALSE,
                                 !.shadow = PoisonScope_new(state)]
    /\ last' = Log("scope", TRUE, 0, 0, from_unpoisoned)
    /\ UNCHANGED <<value, state, panicking, in_flight, abandoned, recovered>>

(* mutant: a step records its failure in the container itself            *)
try_catch_unwind_direct(f, out, at) ==
    /\ handle.kind = "scope"
    /\ handle.future # "pending"
    /\ IF is_unpoisoned_or_sentinel(handle.shadow)
       THEN /\ value' = Apply(f, value)
            /\ handle' = [handle EXCEPT
                              !.shadow = TryCatchUnwind_into_result(@, out, at),
                              !.stepped = @ \/ out.kind = "ok",
                              !.failed = @ \/ out.kind # "ok",
                              !.wrote = IF Apply(f, value) # value THEN Apply(f, value) ELSE @,
                              !.future = "none",
                              !.polls = 0,
                              !.borrow = "escaped"]
            /\ last' = [Log("try_catch_unwind", out.kind = "ok", at,
                            IF out.kind = "panic" THEN out.p.msg ELSE out.e,
                            IF out.kind = "ok" THEN from_unpoisoned
                            ELSE to_error(TryCatchUnwind_into_result(handle.shadow, out, at)))
                        EXCEPT !.ran = TRUE, !.f = f, !.out = out.kind]
       ELSE /\ UNCHANGED value
            /\ handle' = [handle EXCEPT !.borrow = "none"]
            /\ last' = Log("try_catch_unwind", FALSE, at, 0, to_error(handle.shadow))
    /\ state' = IF is_unpoisoned_or_sentinel(handle.shadow)
                THEN TryCatchUnwind_into_result(state, out, at) ELSE state
    /\ UNCHANGED <<panicking, in_flight, abandoned, recovered>>

(* scope.try_catch_unwind(step) driven synchronously (`?`, unwrap, map)   *)
try_catch_unwind(f, out, at) ==
    /\ handle.kind = "scope"
    /\ handle.future # "pending"
    /\ IF is_unpoisoned_or_sentinel(handle.shadow)
       THEN /\ value' = Apply(f, value)
            /\ handle' = [handle EXCEPT
                              !.shadow = TryCatchUnwind_into_result(@, out, at),
                              !.stepped = @ \/ out.kind = "ok",
                              !.failed = @ \/ out.kind # "ok",
                              !.wrote = IF Apply(f, value) # value THEN Apply(f, value) ELSE @,
                              !.future = "none",
                              !.polls = 0,
                              !.borrow = "escaped"]
            /\ last' = [Log("try_catch_unwind", out.kind = "ok", at,
                            IF out.kind = "panic" THEN out.p.msg ELSE out.e,
                            IF out.kind = "ok" THEN from_unpoisoned
                            ELSE to_error(TryCatchUnwind_into_result(handle.shadow, out, at)))
                        EXCEPT !.ran = TRUE, !.f = f, !.out = out.kind]
       ELSE /\ UNCHANGED value
            /\ handle' = [handle EXCEPT !.borrow = "none"]
            /\ last' = Log("try_catch_unwind", FALSE, at, 0, to_error(handle.shadow))
    /\ UNCHANGED <<state, panicking, in_flight, abandoned, recovered>>

(* scope.try_catch_unwind(step).await: one poll of the future. The first  *)
(* poll runs the closure that makes the step's future and polls it; every *)
(* poll runs inside panic::catch_unwind.                                  *)
poll(f, out, at) ==
    /\ handle.kind = "scope"
    /\ IF handle.future = "pending" \/ is_unpoisoned_or_sentinel(handle.shadow)
       THEN /\ (out.kind = "pending" /\ handle.future = "pending") =>
                   handle.polls < MaxPolls
            /\ value' = Apply(f, value)
            /\ handle' = [handle EXCEPT
                              !.shadow = TryCatchUnwind_poll(@, out, at),
                              !.stepped = @ \/ out.kind = "ok",
                              !.failed = @ \/ out.kind \in {"err", "panic"},
                              !.wrote = IF Apply(f, value) # value THEN Apply(f, value) ELSE @,
                              !.future = IF out.kind = "pending" THEN "pending" ELSE "none",
                              !.polls = IF out.kind # "pending" THEN 0
                                        ELSE IF handle.future = "pending" THEN @ + 1
                                        ELSE 1,
                              !.borrow = IF out.kind = "pending" THEN "none" ELSE "escaped"]
            /\ last' = [Log("poll", out.kind = "ok", at,
                            IF out.kind = "panic" THEN out.p.msg ELSE out.e,
                            IF out.kind \in {"ok", "pending"} THEN from_unpoisoned
                            ELSE to_error(TryCatchUnwind_poll(handle.shadow, out, at)))
                        EXCEPT !.ran = TRUE, !.f = f, !.out = out.kind]
       ELSE /\ UNCHANGED value
            /\ handle' = [handle EXCEPT !.borrow = "none"]
            /\ last' = Log("poll", FALSE, at, 0, to_error(handle.shadow))
    /\ UNCHANGED <<state, panicking, in_flight, abandoned, recovered>>

(* the suspended future is dropped: TryCatchUnwind has no finalizer       *)
cancel ==
    /\ handle.kind = "scope"
    /\ handle.future = "pending"
    /\ handle' = [handle EXCEPT !.future = "cancelled"]
    /\ last' = Log("cancel", TRUE, 0, 0, from_unpoisoned)
    /\ UNCHANGED <<value, state, panicking, in_flight, abandoned, recovered>>

(* a `&'b mut T` that a step's closure let escape is written through,     *)
(* after the step returned and before the scope is used again             *)
escaped_write(v) ==
    /\ handle.kind = "scope"
    /\ handle.borrow \in {"escaped", "used"}
    /\ value' = v
    /\ handle' = [handle EXCEPT !.borrow = "used", !.wrote = v]
    /\ last' = Log("escaped_write", TRUE, 0, v, from_unpoisoned)
    /\ UNCHANGED <<state, panicking, in_flight, abandoned, recovered>>

(* scope.poison(): close the scope                                        *)
scope_poison(at) ==
    /\ handle.kind = "scope"
    /\ handle.future # "pending"
    /\ IF is_poisoned(PoisonScope_poison(handle.shadow, state))
       THEN /\ handle' = PoisonRecover_new
            /\ state' = PoisonScope_poison(handle.shadow, state)
            /\ last' = Log("scope_poison", FALSE, at, 0, from_unpoisoned)
       ELSE /\ handle' = Guard("scope_poison", "lenient", at)
            /\ state' = PoisonGuard_new(PoisonScope_poison(handle.shadow, state), at)
            /\ last' = Log("scope_poison", TRUE, at, 0, from_unpoisoned)
    /\ UNCHANGED <<value, panicking, in_flight, abandoned, recovered>>

(* Drop for PoisonScope                                                   *)
scope_drop(at) ==
    /\ handle.kind = "scope"
    /\ handle.future # "pending"
    /\ state' = PoisonScope_drop(handle.shadow, state, panicking, at)
    /\ handle' = NoHandle
    /\ recovered' = Settle(handle', state', recovered)
    /\ last' = Log("scope_drop", TRUE, at, 0, from_unpoisoned)
    /\ UNCHANGED <<value, panicking, in_flight, abandoned>>

(* mem::forget(scope)                                                     *)
scope_forget ==
    /\ handle.kind = "scope"
    /\ handle.future # "pending"
    /\ handle' = NoHandle
    /\ abandoned' = TRUE
    /\ recovered' = Settle(handle', state, recovered)
    /\ last' = Log("scope_forget", TRUE, 0, 0, from_unpoisoned)
    /\ UNCHANGED <<value, state, panicking, in_flight>>

(* ------------------------------ unwinding ----------------------------- *)
(* panic!("..."): the payload is the message, a &'static str             *)
Panics == [kind : {"str"}, msg : Msgs]

(* panic!(payload): the thread starts to unwind                           *)
begin_panic(p) ==
    /\ ~panicking
    /\ panicking' = TRUE
    /\ in_flight' = p
    /\ last' = Log("panic", FALSE, 0, 0, from_unpoisoned)
    /\ UNCHANGED <<value, state, handle, abandoned, recovered>>

(* panic::catch_unwind / the end of the unwound frames                    *)
catch_unwind ==
    /\ panicking
    /\ panicking' = FALSE
    /\ in_flight' = NoPayload
    /\ last' = Log("catch_unwind", TRUE, 0, 0, from_unpoisoned)
    /\ UNCHANGED <<value, state, handle, abandoned, recovered>>

(* ------------------- the container behind a Mutex -------------------- *)
(* Each worker runs `Poison::on_unwind(shared.lock()).unwrap()`, mutates  *)
(* the value and returns or panics; the main thread joins the workers and *)
(* then locks, looks at is_poisoned, or checks out and repairs. The       *)
(* MutexGuard is the guard's target: it is dropped, and the Mutex         *)
(* unlocked, after the finalizer of the handle that holds it. The thread  *)
(* that holds the lock is the one the container's operations run on.      *)
Positions ==
    {"start", "locked", "guarded", "pushed", "added", "refused", "unwinding", "bailing", "released",
     "let_go", "unwound", "bailed", "done", "left_poisoned", "dead", "turned_away"}

Finished == {"done", "left_poisoned", "dead", "turned_away"}

Holder(t, at_pc) == lock = t /\ pc[t] = at_pc

Goto(t, to) == pc' = [pc EXCEPT ![t] = to] /\ UNCHANGED frame

(* JoinHandle::join on every worker has returned                          *)
Joined == \A w \in DOMAIN pc \ {Main} : pc[w] \in Finished

(* the single-threaded operations leave the Mutex programs alone          *)
Alone == UNCHANGED <<lock, pc, frame>>

(* Mutex::lock                                                            *)
mutex_lock(t) ==
    /\ lock = NoThread /\ pc[t] = "start"
    /\ t = Main => Joined
    /\ lock' = t
    /\ Goto(t, "locked")
    /\ last' = Log("lock", TRUE, 0, 0, from_unpoisoned)
    /\ UNCHANGED <<value, state, handle, panicking, in_flight, abandoned, recovered>>

(* Poison::on_unwind(shared.lock())                                       *)
mutex_on_unwind(t, at) ==
    /\ Holder(t, "locked")
    /\ on_unwind(at)
    /\ Goto(t, IF handle'.kind = "guard" THEN "guarded" ELSE "refused")
    /\ UNCHANGED lock

(* the strict checkout through the MutexGuard                             *)
mutex_unless_recovered(t, at) ==
    /\ Holder(t, "locked")
    /\ unless_recovered(at)
    /\ Goto(t, IF handle'.kind = "guard" THEN "guarded" ELSE "refused")
    /\ UNCHANGED lock

(* mutex.lock().is_poisoned(): the MutexGuard is a temporary              *)
mutex_is_poisoned(t) ==
    /\ Holder(t, "locked") /\ t = Main
    /\ Goto(t, "released")
    /\ last' = Log("is_poisoned", is_poisoned(state), 0, 0, from_unpoisoned)
    /\ UNCHANGED <<value, state, handle, panicking, in_flight, abandoned, recovered, lock>>

(* *guard += 1, account.txns.push(3)                                      *)
mutex_write(t, v) ==
    /\ Holder(t, "guarded")
    /\ write(v)
    /\ Alone

(* panic!(..) in a worker that holds the guard                            *)
mutex_panic(t, p) ==
    /\ Holder(t, "guarded") /\ t # Main
    /\ begin_panic(p)
    /\ Goto(t, "unwinding")
    /\ UNCHANGED lock

(* .unwrap() on the Err of a worker's checkout panics                     *)
mutex_unwrap(t, p) ==
    /\ Holder(t, "refused") /\ t # Main
    /\ begin_panic(p)
    /\ Goto(t, "bailing")
    /\ UNCHANGED lock

(* the guard goes out of scope, at the end of the closure or as the       *)
(* worker unwinds                                                          *)
mutex_drop_guard(t, at) ==
    /\ lock = t /\ pc[t] \in {"guarded", "unwinding"}
    /\ drop_guard(at)
    /\ Goto(t, IF panicking THEN "unwound"
               ELSE IF handle.discipline = "strict" THEN "let_go" ELSE "released")
    /\ UNCHANGED lock

(* Poison::recover(guard): the explicit recovery of the guard             *)
mutex_recover_guard(t, at) ==
    /\ Holder(t, "guarded")
    /\ recover_guard(at)
    /\ Goto(t, "released")
    /\ UNCHANGED lock

(* the PoisonRecover inside the Err goes away as the worker unwinds       *)
mutex_drop_recover(t) ==
    /\ Holder(t, "bailing")
    /\ drop_recover
    /\ Goto(t, "bailed")
    /\ UNCHANGED lock

(* Err(recover) => recover.recover_with(..) in the main thread            *)
mutex_recover_with(t, f, at) ==
    /\ Holder(t, "refused") /\ t = Main
    /\ recover_with(f, at)
    /\ Goto(t, "guarded")
    /\ UNCHANGED lock

(* Drop for MutexGuard; a worker that unwinds ends there and its join     *)
(* returns Err                                                             *)
mutex_unlock(t) ==
    /\ lock = t /\ pc[t] \in {"released", "let_go", "unwound", "bailed"}
    /\ lock' = NoThread
    /\ IF panicking
       THEN /\ catch_unwind
            /\ Goto(t, IF pc[t] = "unwound" THEN "dead" ELSE "turned_away")
       ELSE /\ Goto(t, IF pc[t] = "let_go" THEN "left_poisoned" ELSE "done")
            /\ last' = Log("unlock", TRUE, 0, 0, from_unpoisoned)
            /\ UNCHANGED <<value, state, handle, panicking, in_flight, abandoned, recovered>>

NextMutex ==
    \/ \E t \in Threads : mutex_lock(t)
    \/ \E t \in Threads, at \in Locs : mutex_on_unwind(t, at)
    \/ \E t \in Threads, at \in Locs : mutex_unless_recovered(t, at)
    \/ \E t \in Threads : mutex_is_poisoned(t)
    \/ \E t \in Threads, v \in Values : mutex_write(t, v)
    \/ \E t \in Threads, p \in Panics : mutex_panic(t, p)
    \/ \E t \in Threads, p \in Panics : mutex_unwrap(t, p)
    \/ \E t \in Threads, at \in Locs : mutex_drop_guard(t, at)
    \/ \E t \in Threads, at \in Locs : mutex_recover_guard(t, at)
    \/ \E t \in Threads : mutex_drop_recover(t)
    \/ \E t \in Threads, f \in Closures, at \in Locs : mutex_recover_with(t, f, at)
    \/ \E t \in Threads : mutex_unlock(t)

(* ------------------------ examples/mutex.rs -------------------------- *)
(* Five workers push a transaction of 3 onto the shared Account, panic    *)
(* once there are more than three, and add 3 to the total otherwise; main *)
(* joins them, checks out and repairs the total.                           *)
Spawned == 5
TxnLimit == 3
Txn == 3

ExampleWorkers == 1..Spawned
ExampleThreads == ExampleWorkers \cup {Main}

(* Account::default()                                                     *)
Account_default == [txns |-> <<>>, total |-> 0]

(* account.txns.push(3)                                                   *)
example_push(t) ==
    /\ Holder(t, "guarded") /\ t # Main
    /\ write([value EXCEPT !.txns = Append(@, Txn)])
    /\ Goto(t, "pushed")
    /\ UNCHANGED lock

(* if account.txns.len() > 3 { panic!(..) }                               *)
example_panic(t, p) ==
    /\ Holder(t, "pushed")
    /\ Len(value.txns) > TxnLimit
    /\ begin_panic(p)
    /\ Goto(t, "unwinding")
    /\ UNCHANGED lock

(* account.total += 3                                                     *)
example_add(t) ==
    /\ Holder(t, "pushed")
    /\ ~(Len(value.txns) > TxnLimit)
    /\ write([value EXCEPT !.total = @ + Txn])
    /\ Goto(t, "added")
    /\ UNCHANGED lock

(* account goes out of scope: at the end of the worker's closure, as the  *)
(* worker unwinds, or at the end of main                                   *)
example_drop_guard(t, at) ==
    /\ lock = t
    /\ \/ pc[t] \in {"added", "unwinding"}
       \/ t = Main /\ pc[t] = "guarded"
    /\ drop_guard(at)
    /\ Goto(t, IF panicking THEN "unwound" ELSE "released")
    /\ UNCHANGED lock

NextExample ==
    \/ \E t \in ExampleThreads : mutex_lock(t)
    \/ \E t \in ExampleThreads, at \in Locs : mutex_on_unwind(t, at)
    \/ \E t \in ExampleThreads : example_push(t)
    \/ \E t \in ExampleThreads, p \in Panics : example_panic(t, p)
    \/ \E t \in ExampleThreads : example_add(t)
    \/ \E t \in ExampleThreads, at \in Locs : example_drop_guard(t, at)
    \/ \E t \in ExampleThreads, p \in Panics : mutex_unwrap(t, p)
    \/ \E t \in ExampleThreads : mutex_drop_recover(t)
    \/ \E t \in ExampleThreads, at \in Locs : mutex_recover_with(t, "sum", at)
    \/ \E t \in ExampleThreads : mutex_unlock(t)

(* Arc::new(Mutex::new(Poison::new(Account::default())))                  *)
InitExample ==
    /\ value = Poison_new(Account_default).value
    /\ state = Poison_new(Account_default).state
    /\ handle = NoHandle
    /\ panicking = FALSE
    /\ in_flight = NoPayload
    /\ abandoned = FALSE
    /\ recovered = "clean"
    /\ last = [op |-> "new", ok |-> TRUE, at |-> 0, arg |-> 0,
               err |-> from_unpoisoned, pre |-> from_unpoisoned,
               pre_value |-> Account_default, h |-> NoHandle, unwinding |-> FALSE,
               ran |-> FALSE, f |-> "none", out |-> "ok"]
    /\ lock = NoThread
    /\ pc = [t \in ExampleThreads |-> "start"]
    /\ frame = NoFrame

(* ================ src/guard.rs: unwind-safe initialization ============= *)
(* the cleanup closures of tests/guard.rs: the one that finalizes the     *)
(* elements [0..*i] and the one that panics                                *)
Cleanups == {"drop_in_place", "panic"}

(* the ways the initializer of tests/guard.rs fails at element fail_at;   *)
(* fail_at = 0 is the initializer that fills the whole array              *)
Failures(fallible, fail_at) ==
    IF fail_at = 0 THEN {"none"} ELSE IF fallible THEN {"panic", "err"} ELSE {"panic"}

(* let uninit = Some(MaybeUninit::uninit()); let state = state;           *)
(* let guard = InitGuard(&state, &uninit, Some(on_unwind))                *)
InitGuard_new(fallible, fail_at, how, cleanup) ==
    [NoFrame EXCEPT !.at = "init", !.fallible = fallible, !.fail_at = fail_at,
                    !.how = how, !.cleanup = cleanup, !.uninit = TRUE, !.on_unwind = TRUE]

(* mutant of InitSlot_into_inner: reads the value and leaves the Option   *)
(* Some                                                                    *)
InitSlot_into_inner_untaken(f) == f

(* InitSlot::into_inner: (slot.0).0.take().unwrap().assume_init()         *)
InitSlot_into_inner(f) == [f EXCEPT !.uninit = FALSE]

(* InitGuard::drop: if the Option is still Some, take it and the closure  *)
(* and call the closure with the state and UnwoundSlot(unwound); the      *)
(* MaybeUninit<T> it hands over has no destructor of its own              *)
InitGuard_drop(f) ==
    IF f.uninit
    THEN [f EXCEPT !.uninit = FALSE, !.on_unwind = FALSE, !.cleanups = @ + 1,
                   !.finalized = [k \in Elems |->
                       IF f.cleanup = "drop_in_place" /\ k <= f.i THEN @[k] + 1 ELSE @[k]]]
    ELSE [f EXCEPT !.on_unwind = FALSE]

(* the cleanup closure was called by this drop of the guard and panicked  *)
CleanupPanicked(f) == f.uninit /\ f.cleanup = "panic"

(* the rest of the model is not touched by the initialization utilities   *)
Elsewhere ==
    UNCHANGED <<value, state, handle, panicking, in_flight, abandoned, recovered, last, lock, pc>>

(* init_unwind_safe, up to the call of the initializer                    *)
init_unwind_safe(fail_at, cleanup) ==
    /\ frame.at = "idle"
    /\ \E how \in Failures(FALSE, fail_at) :
           frame' = InitGuard_new(FALSE, fail_at, how, cleanup)
    /\ Elsewhere

(* try_init_unwind_safe, up to the call of the initializer                *)
try_init_unwind_safe(fail_at, how, cleanup) ==
    /\ frame.at = "idle"
    /\ how \in Failures(TRUE, fail_at)
    /\ frame' = InitGuard_new(TRUE, fail_at, how, cleanup)
    /\ Elsewhere

(* one turn of the initializer's loop: *elem = MaybeUninit::new(..);      *)
(* *i += 1; if *i == fail_at { panic!(..) / return Err(..) }              *)
init_elem ==
    /\ frame.at = "init"
    /\ frame.i < MaxElems
    /\ LET k == frame.i + 1 IN
           frame' = [frame EXCEPT !.elems[k] = TRUE, !.i = k,
                                  !.at = IF k # frame.fail_at THEN "init"
                                         ELSE IF frame.how = "panic" THEN "panicked"
                                         ELSE "erred"]
    /\ Elsewhere

(* the initializer's loop is over: unsafe { uninit.assume_init() }        *)
assume_init ==
    /\ frame.at = "init"
    /\ frame.i = MaxElems
    /\ frame' = [frame EXCEPT !.at = "initialized"]
    /\ Elsewhere

(* the initializer returned the InitSlot: take the value, drop the guard, *)
(* drop the state, return the value                                        *)
init_unwind_safe_ok ==
    /\ frame.at = "initialized"
    /\ frame' = [InitGuard_drop(InitSlot_into_inner(frame)) EXCEPT
                     !.at = "returned", !.out = "value"]
    /\ Elsewhere

(* the fallible initializer returned Err(e): drop the guard, drop the     *)
(* state, return Err(e); a panic of the cleanup closure unwinds           *)
try_init_unwind_safe_err ==
    /\ frame.at = "erred"
    /\ frame' = [InitGuard_drop(frame) EXCEPT
                     !.at = "returned",
                     !.out = IF CleanupPanicked(frame) THEN "unwound" ELSE "err"]
    /\ Elsewhere

(* the initializer unwound: the unwind drops the guard and goes on; a     *)
(* panic of the cleanup closure during the unwind aborts                   *)
init_unwind_safe_unwind ==
    /\ frame.at = "panicked"
    /\ frame' = [InitGuard_drop(frame) EXCEPT
                     !.at = "returned",
                     !.out = IF CleanupPanicked(frame) THEN "abort" ELSE "unwound"]
    /\ Elsewhere

(* the caller lets go of the array it was returned: T's destructor runs   *)
(* on every element                                                        *)
caller_drop ==
    /\ frame.at = "returned"
    /\ frame.out = "value"
    /\ frame' = [frame EXCEPT !.at = "done",
                              !.dropped = [k \in Elems |-> @[k] + 1]]
    /\ Elsewhere

NextInit ==
    \/ \E fail_at \in 0..MaxElems, cleanup \in Cleanups : init_unwind_safe(fail_at, cleanup)
    \/ \E fail_at \in 0..MaxElems, how \in {"none", "panic", "err"}, cleanup \in Cleanups :
           try_init_unwind_safe(fail_at, how, cleanup)
    \/ init_elem
    \/ assume_init
    \/ init_unwind_safe_ok
    \/ try_init_unwind_safe_err
    \/ init_unwind_safe_unwind
    \/ caller_drop

(* nothing of the container is used by the initialization utilities       *)
InitFrame == Init /\ last.op = "new" /\ value = T_default

(* Mutex::new(Poison::new(v))                                             *)
InitMutex == Init /\ last.op = "new"

(* ======================== properties of the model ===================== *)
Handles ==
    [kind : {"none", "guard", "recover", "scope"}, recover_to_poison_now : BOOLEAN,
     discipline : {"none", "lenient", "strict"}, origin : {0} \cup Locs,
     via : {"none", "on_unwind", "unless_recovered", "recover", "recover_with",
            "try_recover_with", "scope_poison", "scope"},
     wrote : {-1} \cup Values, attempts : 0..MaxAttempts, shadow : PoisonStateInner,
     stepped : BOOLEAN, failed : BOOLEAN, future : {"none", "pending", "cancelled"},
     polls : 0..MaxPolls, borrow : {"none", "escaped", "used"}, since_unwinding : BOOLEAN]

TypeOK ==
    /\ value \in Values
    /\ state \in PoisonStateInner
    /\ handle \in Handles
    /\ panicking \in BOOLEAN
    /\ in_flight \in Payloads \cup {NoPayload}
    /\ abandoned \in BOOLEAN
    /\ recovered \in {"clean", "poisoned", "recovered"}
    /\ last.pre \in PoisonStateInner /\ last.h \in Handles /\ last.err \in PoisonStateInner
    /\ lock \in Threads \cup {NoThread}
    /\ pc \in [Threads -> Positions]
    /\ frame.at \in {"idle", "init", "initialized", "erred", "panicked", "returned", "done"}
    /\ frame.i \in 0..MaxElems
    /\ frame.cleanups \in 0..1

PoisonedByUnwind == {"CapturedPanic", "UnknownPanic"}
PoisonedByError == {"CapturedErr", "UnknownErr"}
Checkouts == {"on_unwind", "unless_recovered"}

(* the guard `last` released had been made by the lenient / strict constructor *)
ReleasedNormally(discipline) ==
    /\ last.op = "drop_guard"
    /\ last.h.discipline = discipline
    /\ ~last.unwinding

(* C1: a lenient guard released while the thread is not unwinding leaves  *)
(* the container Unpoisoned, and the value read afterwards is the value   *)
(* the guard held, which is what was last written through it.             *)
C1_LenientNormalRelease ==
    ReleasedNormally("lenient") =>
        /\ state = from_unpoisoned
        /\ value = last.pre_value
        /\ get_result(state, value) = [ok |-> TRUE, value |-> value, err |-> from_unpoisoned]
        /\ last.h.wrote # -1 => get_result(state, value).value = last.h.wrote

C1_Witness ==
    /\ ReleasedNormally("lenient")
    /\ last.h.via = "on_unwind"
    /\ last.h.wrote = 1
    /\ value = 1

(* C2: a lenient guard released while the thread is unwinding leaves the  *)
(* container PoisonedByUnwind with the location where its checkout began, *)
(* and a checkout of a container poisoned by an unwind fails with a       *)
(* PoisonRecover.                                                          *)
C2_LenientUnwindingRelease ==
    /\ (last.op = "drop_guard" /\ last.h.discipline = "lenient" /\ last.unwinding) =>
           /\ state.tag \in PoisonedByUnwind
           /\ state.location = last.h.origin
           /\ handle = NoHandle
    /\ (last.op \in Checkouts /\ last.pre.tag \in PoisonedByUnwind) =>
           /\ ~last.ok
           /\ handle.kind = "recover"
           /\ state = last.pre

C2_Witness ==
    /\ last.op = "drop_guard" /\ last.h.discipline = "lenient" /\ last.unwinding
    /\ last.h.via = "on_unwind"
    /\ last.at # last.h.origin
    /\ state.tag \in PoisonedByUnwind

StrictCheckoutLive == last.h.discipline = "strict" /\ last.h.kind \in {"guard", "scope"}

C5_FailedCheckout ==
    /\ (last.op \in Checkouts /\ last.pre.tag # "Unpoisoned") =>
           /\ ~last.ok
           /\ handle.kind = "recover"
           /\ handle.recover_to_poison_now = (last.op = "unless_recovered")
           /\ state = last.pre
           /\ value = last.pre_value
    /\ last.op = "drop_recover" =>
           /\ handle = NoHandle
           /\ state = last.pre
           /\ state.tag # "Unpoisoned"
           /\ value = last.pre_value

C5_Witness ==
    /\ last.op \in Checkouts
    /\ last.pre.tag = "Sentinel"
    /\ handle.kind = "recover"

(* C6: after a guard or a scope was leaked, and until a recovery          *)
(* operation, the container is poisoned: get fails and so does every      *)
(* checkout.                                                               *)
C6_AbandonedIsPoisoned ==
    abandoned =>
        /\ state.tag # "Unpoisoned"
        /\ ~get_result(state, value).ok
        /\ last.op \in Checkouts \cup {"get"} => ~last.ok

C6_Witness ==
    /\ abandoned
    /\ last.op \in Checkouts
    /\ last.h = NoHandle
    /\ state.tag = "Sentinel"

(* C7: once the container sat poisoned with no live handle, it is         *)
(* Unpoisoned again only after a recovery operation (recover,             *)
(* recover_with, a successful try_recover_with, or the explicit recovery  *)
(* of a live guard); no single other operation clears it.                  *)
C7_RecoveryIsConscious ==
    /\ state.tag = "Unpoisoned" => recovered # "poisoned"
    /\ (last.pre.tag # "Unpoisoned" /\ last.h.kind = "none") => state = last.pre
    /\ (last.op \in {"drop_recover", "into_error", "get"} \cup Checkouts
           /\ state.tag = "Unpoisoned") => last.pre.tag = "Unpoisoned"

C7_Witness ==
    /\ state.tag = "Unpoisoned"
    /\ recovered = "recovered"
    /\ last.op = "drop_guard"
    /\ last.h.via = "recover"

C10_TryRecoverWith ==
    /\ (last.op = "try_recover_with" /\ ~last.ok) =>
           /\ state.tag = "CapturedErr" /\ state.cause = last.arg
           /\ handle = [last.h EXCEPT !.attempts = @ + 1]
           /\ value = Apply(last.f, last.pre_value)
    /\ (last.op = "try_recover_with" /\ last.ok) =>
           /\ handle.kind = "guard"
           /\ value = Apply(last.f, last.pre_value)

C10_Witness ==
    /\ last.op = "try_recover_with" /\ last.ok
    /\ last.h.attempts = MaxAttempts
    /\ last.pre.tag = "CapturedErr"
    /\ handle.kind = "guard"

C10_WitnessReplaced ==
    /\ last.op = "try_recover_with" /\ ~last.ok
    /\ last.pre.tag = "CapturedErr" /\ last.pre.cause # last.arg
    /\ state.cause = last.arg

(* a failed try_recover_with was the last operation                       *)
FailedTryRecoverWith == last.op = "try_recover_with" /\ ~last.ok

(* C11 as stated: a failed try_recover_with leaves the kind of poison     *)
(* unchanged.                                                              *)
C11_Original ==
    FailedTryRecoverWith =>
        /\ last.pre.tag \in PoisonedByUnwind => state.tag \in PoisonedByUnwind
        /\ last.pre.tag \in PoisonedByError => state.tag \in PoisonedByError

(* C11: a failed try_recover_with replaces the poison, whatever it was,   *)
(* by PoisonedByError carrying the new cause: PoisonedByUnwind becomes    *)
(* PoisonedByError, PoisonedByError stays PoisonedByError; the origin of  *)
(* a checked-out sentinel is kept, any other origin becomes the call site. *)
C11_FailedTryRecoverReplaces ==
    FailedTryRecoverWith =>
        /\ state.tag = "CapturedErr"
        /\ state.tag \in PoisonedByError
        /\ state.cause = last.arg
        /\ state.location = IF last.pre.tag = "Sentinel" THEN last.pre.location ELSE last.at

C11_Witness ==
    /\ FailedTryRecoverWith
    /\ last.pre.tag \in PoisonedByUnwind
    /\ state.tag = "CapturedErr"

C13_IntoError ==
    last.op = "into_error" =>
        /\ last.err.tag = last.pre.tag
        /\ last.err.cause = last.pre.cause
        /\ last.err.location = last.pre.location
        /\ state = last.pre
        /\ state.tag # "Unpoisoned"
        /\ value = last.pre_value
        /\ handle = NoHandle

C13_Witness ==
    /\ last.op = "into_error"
    /\ last.err.tag = "CapturedErr"
    /\ last.err.cause = MaxErr
    /\ state = last.pre

(* C14: poisoning a live guard of either discipline with an error, on a   *)
(* path that is not unwinding, consumes the guard and leaves the          *)
(* container PoisonedByError with that cause (the guard's finalizer does  *)
(* not clear it), and a checkout of a container so poisoned fails.         *)
C14_ExplicitPoison ==
    /\ (last.op = "poison_guard" /\ ~last.unwinding) =>
           /\ state.tag = "CapturedErr" /\ state.cause = last.arg
           /\ last.err = state
           /\ handle = NoHandle
           /\ value = last.pre_value
    /\ last.op = "err" =>
           /\ state.tag = "CapturedErr" /\ state.cause = last.arg
           /\ handle.kind = "recover"
           /\ value = last.pre_value
    /\ (last.op \in Checkouts /\ last.pre.tag = "CapturedErr") =>
           ~last.ok /\ handle.kind = "recover" /\ state = last.pre

C14_Witness ==
    /\ last.op = "poison_guard" /\ ~last.unwinding
    /\ last.h.discipline = "lenient"
    /\ state.tag = "CapturedErr" /\ state.cause = last.arg
    /\ handle = NoHandle

(* C15: the origin of the poison left by the release or the explicit      *)
(* poisoning of a checkout's guard is the location of that checkout, for  *)
(* both disciplines.                                                       *)
C15_OriginPreserved ==
    (/\ last.op \in {"drop_guard", "poison_guard", "err"}
     /\ last.h.via \in Checkouts
     /\ state.tag \in PoisonedByUnwind \cup PoisonedByError) =>
        state.location = last.h.origin

(* the operations through which the caller's code gets at the value       *)
CallerCode ==
    {"write", "recover_with", "try_recover_with", "try_catch_unwind", "poll",
     "escaped_write", "recover_with_unwinds", "try_recover_with_unwinds"}

(* C16: the value is changed only by the caller's code (writes through a  *)
(* guard, repair closures, scope steps): no release, poisoning, failed    *)
(* checkout or recover() changes it, and recover() on a container         *)
(* poisoned by an unwind yields a guard over the value as it was left.     *)
C16_NoRollback ==
    /\ value # last.pre_value => last.op \in CallerCode
    /\ last.op = "write" => value = last.arg
    /\ (last.op = "drop_guard" /\ last.unwinding /\ last.h.wrote # -1) =>
           value = last.h.wrote
    /\ last.op = "recover" => handle.kind = "guard" /\ value = last.pre_value

C16_Witness ==
    /\ last.op = "recover"
    /\ last.pre.tag = "UnknownPanic"
    /\ handle.kind = "guard"
    /\ value = MaxVal

(* the two drivers of a scope step                                        *)
Runs == {"try_catch_unwind", "poll"}

(* C17: once a step of a scope failed with an error, after an earlier     *)
(* step succeeded, the shadow is PoisonedByError with that step's cause;  *)
(* every later run returns that failure without executing its step, and   *)
(* closing the scope returns a PoisonRecover with the container           *)
(* PoisonedByError carrying that cause.                                    *)
C17_FailedStepDisarms ==
    /\ (last.op \in Runs /\ last.ran /\ last.out = "err") =>
           /\ ~last.ok
           /\ handle.shadow.tag = "CapturedErr" /\ handle.shadow.cause = last.arg
           /\ last.err = handle.shadow
    /\ (last.op \in Runs /\ last.h.future # "pending" /\ last.h.shadow.tag = "CapturedErr") =>
           /\ ~last.ran /\ ~last.ok
           /\ last.err = last.h.shadow
           /\ value = last.pre_value
           /\ handle = [last.h EXCEPT !.borrow = "none"]
           /\ state = last.pre
    /\ (last.op = "scope_poison" /\ last.h.shadow.tag = "CapturedErr") =>
           /\ ~last.ok
           /\ handle.kind = "recover"
           /\ state = last.h.shadow
           /\ state.tag \in PoisonedByError

C17_Witness ==
    /\ last.op = "scope_poison"
    /\ last.h.stepped /\ last.h.failed
    /\ last.h.shadow.tag = "CapturedErr"
    /\ handle.kind = "recover"
    /\ state.tag = "CapturedErr"

(* C18: closing a scope made of a lenient guard, none of whose steps      *)
(* failed (there may have been none), returns a guard, and the container  *)
(* is Unpoisoned once that guard is released normally.                     *)
C18_CleanScopeCloses ==
    /\ (last.op = "scope_poison" /\ last.h.discipline = "lenient" /\ ~last.h.failed) =>
           /\ last.ok
           /\ handle.kind = "guard"
           /\ state.tag = "Sentinel"
    /\ (ReleasedNormally("lenient") /\ last.h.via = "scope_poison") =>
           /\ state = from_unpoisoned
           /\ get_result(state, value).ok

C18_Witness ==
    /\ last.op = "scope_poison" /\ last.h.discipline = "lenient"
    /\ last.h.stepped /\ ~last.h.failed
    /\ handle.kind = "guard"

(* C19: an unwind raised by a scope step, in the synchronous call or in   *)
(* any poll of an asynchronous step, is caught: the thread is not         *)
(* unwinding afterwards, the run returns a failure, the shadow is         *)
(* PoisonedByUnwind with the origin of the checkout and the message of    *)
(* the unwind (none when the payload is not a string), the container's    *)
(* own state is untouched, and the container is PoisonedByUnwind once the *)
(* scope is closed or dropped.                                             *)
C19_StepUnwindIsCaught ==
    /\ (last.op \in Runs /\ last.ran /\ last.out = "panic") =>
           /\ ~last.ok
           /\ panicking = last.unwinding
           /\ handle.kind = "scope" /\ handle.future = "none"
           /\ handle.shadow.tag = IF last.arg # 0 THEN "CapturedPanic" ELSE "UnknownPanic"
           /\ handle.shadow.cause = last.arg
           /\ handle.shadow.location = last.h.origin
           /\ last.err = handle.shadow
           /\ state = last.pre
    /\ (last.op \in {"scope_poison", "scope_drop"}
           /\ last.h.shadow.tag \in PoisonedByUnwind) =>
           /\ state.tag \in PoisonedByUnwind
           /\ ~last.unwinding => state = last.h.shadow

C19_Witness ==
    /\ last.op = "poll" /\ last.ran /\ last.out = "panic"
    /\ last.h.future = "pending"
    /\ ~panicking
    /\ handle.shadow.tag = "CapturedPanic"

(* C20: a scope dropped while the thread is not unwinding leaves the      *)
(* container as closing it would: Unpoisoned if the shadow is still the   *)
(* sentinel, the failure the shadow captured otherwise; dropped while the *)
(* thread is unwinding it leaves the container PoisonedByUnwind with no   *)
(* message whatever the shadow holds, an error cause included.             *)
C20_ScopeDrop ==
    /\ (last.op = "scope_drop" /\ ~last.unwinding) =>
           /\ state = IF last.h.shadow.tag = "Sentinel" THEN from_unpoisoned
                      ELSE last.h.shadow
           /\ handle = NoHandle
    /\ (last.op = "scope_poison" /\ last.h.shadow.tag # "Sentinel") =>
           state = last.h.shadow /\ handle.kind = "recover"
    /\ (last.op = "scope_drop" /\ last.unwinding) =>
           /\ state.tag = "UnknownPanic" /\ state.cause = 0
           /\ handle = NoHandle

C20_Witness ==
    /\ last.op = "scope_drop" /\ last.unwinding
    /\ last.h.shadow.tag = "CapturedErr"
    /\ state.tag = "UnknownPanic"

(* C21: dropping a suspended step, after any number of Pending polls and  *)
(* with no failure captured, changes nothing; the scope dropped after     *)
(* that, while the thread is not unwinding, leaves the container          *)
(* Unpoisoned with the value as the step left it.                          *)
C21_CancelIsEarlyReturn ==
    /\ last.op = "cancel" =>
           /\ handle = [last.h EXCEPT !.future = "cancelled"]
           /\ state = last.pre
           /\ value = last.pre_value
    /\ (last.op = "scope_drop" /\ ~last.unwinding
           /\ last.h.future = "cancelled" /\ ~last.h.failed) =>
           /\ state = from_unpoisoned
           /\ handle = NoHandle
           /\ value = last.pre_value
           /\ last.h.wrote # -1 => value = last.h.wrote

C21_Witness ==
    /\ last.op = "scope_drop" /\ ~last.unwinding
    /\ last.h.future = "cancelled" /\ ~last.h.failed
    /\ last.h.polls = MaxPolls
    /\ last.h.wrote = value
    /\ state = from_unpoisoned

(* C22: a write through a borrow that escaped a step changes the value    *)
(* and nothing else; after a step's failure was captured the container is *)
(* poisoned when the scope is closed or dropped, whatever was written      *)
(* through the borrow, and what was written is kept.                       *)
C22_EscapedBorrow ==
    /\ last.op = "escaped_write" =>
           /\ value = last.arg
           /\ handle = [last.h EXCEPT !.borrow = "used", !.wrote = last.arg]
           /\ state = last.pre
    /\ (last.op \in {"scope_poison", "scope_drop"} /\ last.h.failed) =>
           /\ state.tag \in PoisonedByUnwind \cup PoisonedByError
           /\ last.op = "scope_poison" => handle.kind = "recover"
           /\ value = last.pre_value
           /\ last.h.borrow = "used" => value = last.h.wrote

C22_Witness ==
    /\ last.op = "scope_drop"
    /\ last.h.failed /\ last.h.borrow = "used"
    /\ value = last.h.wrote
    /\ state.tag = "CapturedPanic"

Factories == {"new_catch_unwind", "try_new_catch_unwind"}

C24_NewAndGet ==
    /\ last.op = "new" =>
           /\ state = from_unpoisoned
           /\ value = last.arg
           /\ get_result(state, value) = [ok |-> TRUE, value |-> last.arg, err |-> from_unpoisoned]
    /\ last.op = "get" =>
           /\ state = last.pre
           /\ value = last.pre_value
           /\ handle = last.h
           /\ last.pre = from_unpoisoned => last.ok /\ last.arg = value

C24_Witness ==
    /\ last.op = "get" /\ last.ok
    /\ last.arg = MaxVal
    /\ value = MaxVal
    /\ state = from_unpoisoned

(* the operations that turn one handle into another, with the kind of    *)
(* handle each consumes                                                    *)
Consumes ==
    [scope |-> "guard", err |-> "guard", scope_poison |-> "scope", recover |-> "recover",
     recover_with |-> "recover", try_recover_with |-> "recover"]

Unwound == {w \in Workers : pc[w] \in {"unwound", "dead"}}

(* C26: behind the Mutex, a worker that unwinds holding a guard gives the *)
(* lock back: no thread that has ended holds it and some thread can move  *)
(* as long as one has not ended. From then on the container is            *)
(* PoisonedByUnwind for every thread that takes the lock, until the main  *)
(* thread repairs it: its checkout fails with a PoisonRecover and         *)
(* is_poisoned is true.                                                    *)
C26_UnwindBehindLock ==
    /\ \A t \in Threads : pc[t] \in Finished => lock # t
    /\ lock = NoThread => handle = NoHandle /\ ~panicking
    /\ (\E t \in Threads : pc[t] \notin Finished) => ENABLED NextMutex
    /\ (Unwound # {} /\ pc[Main] \in {"start", "locked", "refused"}) =>
           /\ state.tag \in PoisonedByUnwind
           /\ is_poisoned(state)
           /\ \A t \in Threads : pc[t] = "guarded" => t \in Unwound
    /\ (Unwound # {} /\ last.op = "on_unwind") =>
           /\ ~last.ok
           /\ handle.kind = "recover"
           /\ last.err.tag \in PoisonedByUnwind
           /\ pc[lock] = "refused"
    /\ (Unwound # {} /\ last.op = "is_poisoned") => last.ok

C26_Witness ==
    /\ \E w \in Workers : pc[w] = "dead"
    /\ lock \in Workers
    /\ last.op = "on_unwind" /\ ~last.ok
    /\ handle.kind = "recover"
    /\ pc[lock] = "refused"

(* C27: while a handle is live the state is not Unpoisoned: under a       *)
(* PoisonRecover it is poisoned, under a lenient guard or scope it is the *)
(* sentinel, under a strict guard or scope it is PoisonedByError with no  *)
(* cause.                                                                  *)
C27_LiveHandleMarksState ==
    /\ handle.kind # "none" => state.tag # "Unpoisoned"
    /\ handle.kind = "recover" => ~get_result(state, value).ok
    /\ (handle.kind \in {"guard", "scope"} /\ handle.discipline = "lenient") =>
           state.tag = "Sentinel" /\ state.location = handle.origin
    /\ (handle.kind \in {"guard", "scope"} /\ handle.discipline = "strict") =>
           state.tag = "UnknownErr"

C27_Witness ==
    /\ handle.kind = "scope" /\ handle.discipline = "lenient"
    /\ handle.failed
    /\ last.h.kind = "scope"
    /\ state.tag = "Sentinel"

(* a guard's finalizer ran while the thread was unwinding                 *)
ReleasedUnwinding == last.op = "drop_guard" /\ last.unwinding

(* C28 as stated: a guard released while unwinding records the message of *)
(* the unwind in progress whenever that message is string-like.            *)
C28_Original ==
    (ReleasedUnwinding /\ in_flight.kind \in {"str", "String"}) =>
        state.tag = "CapturedPanic" /\ state.cause = in_flight.msg

(* C28: a guard released while unwinding leaves the container             *)
(* PoisonedByUnwind without a payload, whatever the payload of the unwind  *)
(* in progress is.                                                         *)
C28_UnwindingReleaseHasNoPayload ==
    ReleasedUnwinding =>
        /\ state.tag = "UnknownPanic" /\ state.cause = 0
        /\ to_error(state).cause = 0
        /\ handle = NoHandle

C28_Witness ==
    /\ ReleasedUnwinding
    /\ in_flight.kind = "str" /\ in_flight.msg \in Msgs
    /\ state.tag = "UnknownPanic"

(* C29: a guard released while unwinding turns the state it finds into    *)
(* PoisonedByUnwind: the PoisonedByError without a cause of a strict guard *)
(* and the error an explicit poisoning has just recorded are both replaced.*)
C29_UnwindingReleaseReplaces ==
    /\ ReleasedUnwinding =>
           /\ state.tag \in PoisonedByUnwind
           /\ last.h.discipline = "strict" => last.pre.tag = "UnknownErr"
    /\ (last.op = "poison_guard" /\ last.unwinding) =>
           /\ state.tag \in PoisonedByUnwind
           /\ state.cause # last.arg

C29_Witness ==
    /\ ReleasedUnwinding
    /\ last.h.discipline = "strict"
    /\ last.pre.tag = "UnknownErr"
    /\ state.tag \in PoisonedByUnwind

C31_StepsChangeOnlyShadow ==
    /\ last.op \in Runs \cup {"cancel", "escaped_write"} =>
           state = last.pre /\ handle.kind = "scope"
    /\ last.op = "scope" => state = last.pre /\ handle.shadow = state
    /\ (handle.kind = "scope" /\ handle.discipline = "lenient") =>
           state = [tag |-> "Sentinel", location |-> handle.origin, cause |-> 0]
    /\ (last.h.kind = "scope" /\ state # last.pre) =>
           last.op \in {"scope_poison", "scope_drop"}

C31_Witness ==
    /\ last.op \in Runs /\ last.ran /\ last.out = "err"
    /\ handle.shadow # last.h.shadow
    /\ handle.shadow.tag = "CapturedErr"
    /\ state.tag = "Sentinel" /\ state = last.pre

(* C32: a step that returns a success makes the run return a success,     *)
(* leaves the shadow the sentinel of the checkout, and the run after it   *)
(* executes its step.                                                      *)
C32_SuccessKeepsScopeArmed ==
    /\ (last.op \in Runs /\ last.ran /\ last.out = "ok") =>
           /\ last.ok /\ last.err = from_unpoisoned
           /\ handle.shadow = last.h.shadow
           /\ handle.shadow = [tag |-> "Sentinel", location |-> handle.origin, cause |-> 0]
           /\ handle.stepped /\ handle.failed = last.h.failed
    /\ (last.op \in Runs /\ last.h.stepped /\ ~last.h.failed) => last.ran

C32_Witness ==
    /\ last.op = "try_catch_unwind" /\ last.ran /\ last.out = "ok"
    /\ last.h.stepped /\ ~last.h.failed
    /\ handle.shadow.tag = "Sentinel"

(* the outcome of the step the last run executed                          *)
StepOutcome ==
    [kind |-> last.out,
     e |-> IF last.out = "err" THEN last.arg ELSE 0,
     p |-> IF last.out # "panic" THEN NoPayload
           ELSE IF last.arg = 0 THEN [kind |-> "other", msg |-> 0]
           ELSE [kind |-> "str", msg |-> last.arg]]

(* C33: a poll that ends a step, after any number of Pending polls,       *)
(* returns what the synchronous run returns for the same outcome and      *)
(* leaves the same shadow, and conversely; a captured failure has the     *)
(* origin of the checkout under both; a Pending poll changes neither the  *)
(* shadow nor the container's state.                                       *)
C33_SyncAsyncEquivalent ==
    /\ (last.op = "poll" /\ last.ran /\ last.out # "pending") =>
           /\ handle.shadow = TryCatchUnwind_into_result(last.h.shadow, StepOutcome, last.at)
           /\ last.ok = (last.out = "ok")
           /\ last.err = IF last.ok THEN from_unpoisoned ELSE to_error(handle.shadow)
    /\ (last.op = "try_catch_unwind" /\ last.ran) =>
           /\ handle.shadow = TryCatchUnwind_poll(last.h.shadow, StepOutcome, last.at)
           /\ last.ok = (last.out = "ok")
           /\ last.err = IF last.ok THEN from_unpoisoned ELSE to_error(handle.shadow)
    /\ (last.op \in Runs /\ last.ran /\ last.out \in {"err", "panic"}) =>
           /\ handle.shadow.location = last.h.origin
           /\ handle.shadow.cause = last.arg
    /\ (last.op \in Runs /\ ~last.ran) =>
           ~last.ok /\ last.err = to_error(last.h.shadow) /\ handle.shadow = last.h.shadow
    /\ (last.op = "poll" /\ last.out = "pending") =>
           handle.shadow = last.h.shadow /\ state = last.pre
    /\ last.op \in Runs => state = last.pre

C33_Witness ==
    /\ last.op = "poll" /\ last.ran /\ last.out = "err"
    /\ last.h.future = "pending" /\ last.h.polls = MaxPolls
    /\ last.at # last.h.origin
    /\ handle.shadow.tag = "CapturedErr"

(* C36: the shadow of a scope made of a strict guard is the container's   *)
(* PoisonedByError without a cause: no run executes its step, each        *)
(* returns that poison as its error, and closing the scope returns a      *)
(* PoisonRecover with the container still PoisonedByError.                 *)
C36_StrictScopeNeverRuns ==
    /\ (last.op = "scope" /\ last.h.discipline = "strict") =>
           handle.shadow.tag = "UnknownErr" /\ handle.shadow = state
    /\ (last.op \in Runs /\ last.h.discipline = "strict") =>
           /\ ~last.ran /\ ~last.ok
           /\ last.err = to_error(last.pre) /\ last.err.tag = "UnknownErr"
           /\ value = last.pre_value
           /\ ~handle.stepped /\ handle.future = "none"
    /\ (last.op = "scope_poison" /\ last.h.discipline = "strict") =>
           /\ ~last.ok
           /\ handle.kind = "recover"
           /\ state = last.pre /\ state.tag = "UnknownErr"

C36_Witness ==
    /\ last.op = "scope_poison" /\ last.h.discipline = "strict"
    /\ last.h.borrow = "none" /\ ~last.h.stepped
    /\ handle.kind = "recover"
    /\ state.tag = "UnknownErr"

(* a lenient checkout of a container in state s, recover() if it failed, *)
(* and the normal release of the guard: the state that is left            *)
CheckoutRecoverRelease(s, at) ==
    PoisonGuard_drop(IF is_poisoned(s) THEN PoisonRecover_recover(s, at)
                     ELSE poison_on_unwind(s, at),
                     FALSE, at)

(* C34: whatever state a container without a live handle is in, a        *)
(* lenient checkout is possible, recover() is possible on the             *)
(* PoisonRecover it may return, the guard obtained can be released, and   *)
(* the normal release leaves the container Unpoisoned.                     *)
C34_PoisonIsNoTrap ==
    /\ handle = NoHandle =>
           /\ ENABLED (\E at \in Locs : on_unwind(at))
           /\ \A at \in Locs : CheckoutRecoverRelease(state, at) = from_unpoisoned
    /\ last.op = "on_unwind" =>
           /\ handle.kind = IF is_poisoned(last.pre) THEN "recover" ELSE "guard"
           /\ handle.kind = "recover" => ENABLED (\E at \in Locs : recover(at))
    /\ last.op \in {"on_unwind", "recover"} /\ handle.kind = "guard" =>
           /\ handle.discipline = "lenient"
           /\ ENABLED (\E at \in Locs : drop_guard(at))
    /\ (last.op = "drop_guard" /\ ~last.unwinding
           /\ last.h.via \in {"on_unwind", "recover"}) =>
           state = from_unpoisoned /\ handle = NoHandle

C34_Witness ==
    /\ last.op = "drop_guard" /\ ~last.unwinding
    /\ last.h.via = "recover"
    /\ recovered = "recovered"
    /\ state = from_unpoisoned /\ handle = NoHandle

(* a repair closure unwound out of recover_with or try_recover_with       *)
RepairUnwound == last.op \in {"recover_with_unwinds", "try_recover_with_unwinds"}

(* C37: a repair closure that unwinds out of recover_with or              *)
(* try_recover_with leaves the container's state as it was, poisoned, and *)
(* no handle behind; a checkout of a container left so fails with a       *)
(* PoisonRecover.                                                          *)
C37_RepairUnwinds ==
    /\ RepairUnwound =>
           /\ state = last.pre
           /\ state.tag # "Unpoisoned" /\ is_poisoned(state)
           /\ ~get_result(state, value).ok
           /\ handle = NoHandle
           /\ panicking /\ ~last.unwinding
           /\ value = Apply(last.f, last.pre_value)
    /\ (last.op \in Checkouts /\ last.pre.tag # "Unpoisoned") =>
           /\ ~last.ok
           /\ handle.kind = "recover"
           /\ state = last.pre

C37_Witness ==
    /\ RepairUnwound
    /\ last.op = "try_recover_with_unwinds"
    /\ last.h.attempts > 0
    /\ last.pre.tag = "CapturedErr"
    /\ value # last.pre_value
    /\ state = last.pre

(* C38: what the release of a guard or of a scope leaves depends on       *)
(* whether the thread is unwinding when it is released, whenever the      *)
(* unwind began: a guard checked out after the unwind had begun, written  *)
(* through and released, leaves the container PoisonedByUnwind; a guard   *)
(* or a clean scope released while the thread is not unwinding leaves the *)
(* state its discipline gives.                                             *)
C38_ReleaseLooksAtUnwindingOnly ==
    /\ (last.op \in {"drop_guard", "scope_drop"} /\ last.unwinding) =>
           /\ state.tag \in PoisonedByUnwind
           /\ handle = NoHandle
    /\ (last.op = "drop_guard" /\ ~last.unwinding) =>
           state = IF last.h.discipline = "lenient" THEN from_unpoisoned ELSE last.pre
    /\ (last.op = "scope_drop" /\ ~last.unwinding) =>
           state = then_to_unpoisoned(last.h.shadow)
    /\ last.op \in {"drop_guard", "scope_drop"} => panicking = last.unwinding

C38_Witness ==
    /\ last.op = "drop_guard" /\ last.unwinding
    /\ last.h.since_unwinding
    /\ last.h.via = "on_unwind"
    /\ last.h.wrote = value
    /\ state.tag \in PoisonedByUnwind

Panicked == {w \in ExampleWorkers : pc[w] \in {"unwinding", "unwound", "dead"}}

(* C35: in examples/mutex.rs, whatever the order in which the workers     *)
(* take the lock, one worker and no more unwinds holding the guard (the   *)
(* one whose push makes more than three transactions); from then on the   *)
(* account is not written and no worker holds a guard; main's checkout    *)
(* fails on a container PoisonedByUnwind; once recover_with has run the   *)
(* total is the sum of the transactions.                                   *)
C35_ExampleRepairsTotal ==
    /\ Cardinality(Panicked) <= 1
    /\ Joined =>
           /\ Cardinality({w \in ExampleWorkers : pc[w] = "dead"}) = 1
           /\ Cardinality({w \in ExampleWorkers : pc[w] = "done"}) = TxnLimit
           /\ Cardinality({w \in ExampleWorkers : pc[w] = "turned_away"})
                  = Spawned - TxnLimit - 1
    /\ ((\E w \in ExampleWorkers : pc[w] \in {"unwound", "dead"})
           /\ pc[Main] \in {"start", "locked", "refused"}) =>
           /\ state.tag \in PoisonedByUnwind
           /\ Len(value.txns) = TxnLimit + 1
           /\ value.total = Txn * TxnLimit
           /\ \A w \in ExampleWorkers : pc[w] \notin {"guarded", "pushed", "added"}
    /\ (last.op = "on_unwind" /\ lock = Main) =>
           /\ ~last.ok
           /\ handle.kind = "recover"
           /\ last.pre.tag \in PoisonedByUnwind
    /\ last.op = "recover_with" =>
           /\ lock = Main
           /\ value.txns = last.pre_value.txns
           /\ value.total = SumSeq(value.txns)
    /\ pc[Main] \in {"guarded", "released", "done"} =>
           /\ value.total = SumSeq(value.txns)
           /\ value.total = Txn * (TxnLimit + 1)

C35_Witness ==
    /\ pc[Main] = "done"
    /\ \E w \in ExampleWorkers : pc[w] = "dead"
    /\ \E w \in ExampleWorkers : pc[w] = "turned_away"
    /\ value.total = SumSeq(value.txns)
    /\ Len(value.txns) = TxnLimit + 1
    /\ state = from_unpoisoned

(* the cleanup closure has not been called and nothing was finalized      *)
NoCleanup ==
    /\ frame.cleanups = 0
    /\ \A k \in Elems : frame.finalized[k] = 0

(* C40: init_unwind_safe and try_init_unwind_safe call the cleanup        *)
(* closure once when the initializer unwinds or returns an error, and not *)
(* at all when it succeeds or before it has ended; once the cleanup       *)
(* closure was called, T's destructor has run on no element outside it,   *)
(* the finalizing closure has finalized once each element written before  *)
(* the failure and no other, and no element is ever finalized or dropped  *)
(* twice.                                                                  *)
C40_CleanupExactlyOnce ==
    /\ frame.cleanups <= 1
    /\ frame.at \in {"idle", "init", "initialized", "erred", "panicked"} => NoCleanup
    /\ frame.out \in {"err", "unwound", "abort"} => frame.cleanups = 1
    /\ frame.out = "value" => NoCleanup
    /\ frame.cleanups = 1 =>
           /\ frame.how \in {"panic", "err"}
           /\ \A k \in Elems : frame.dropped[k] = 0
           /\ frame.cleanup = "drop_in_place" =>
                  \A k \in Elems : frame.finalized[k] = IF frame.elems[k] THEN 1 ELSE 0
    /\ \A k \in Elems : frame.finalized[k] + frame.dropped[k] <= 1

C40_Witness ==
    /\ frame.at = "returned"
    /\ frame.how = "panic"
    /\ frame.out = "unwound"
    /\ frame.cleanup = "drop_in_place"
    /\ frame.cleanups = 1
    /\ frame.i = 2
    /\ frame.finalized[1] = 1 /\ frame.finalized[2] = 1 /\ frame.finalized[3] = 0

Next ==
    \/ \E at \in Locs : on_unwind(at) /\ Alone
    \/ \E at \in Locs : unless_recovered(at) /\ Alone
    \/ \E v \in Values : write(v) /\ Alone
    \/ \E at \in Locs : drop_guard(at) /\ Alone
    \/ forget_guard /\ Alone
    \/ \E at \in Locs : recover_guard(at) /\ Alone
    \/ \E e \in Errs, at \in Locs : poison_guard(e, at) /\ Alone
    \/ \E e \in Errs, at \in Locs : err(e, at) /\ Alone
    \/ \E at \in Locs : recover(at) /\ Alone
    \/ \E f \in Closures, at \in Locs : recover_with(f, at) /\ Alone
    \/ \E f \in Closures, e \in {0} \cup Errs, at \in Locs : try_recover_with(f, e, at) /\ Alone
    \/ \E f \in Closures, p \in Panics : recover_with_unwinds(f, p) /\ Alone
    \/ \E f \in Closures, p \in Panics : try_recover_with_unwinds(f, p) /\ Alone
    \/ drop_recover /\ Alone
    \/ into_error /\ Alone
    \/ get /\ Alone
    \/ scope /\ Alone
    \/ \E f \in Closures, out \in Outcomes, at \in Locs : try_catch_unwind(f, out, at) /\ Alone
    \/ \E f \in Closures, out \in AsyncOutcomes, at \in Locs : poll(f, out, at) /\ Alone
    \/ cancel /\ Alone
    \/ \E v \in Values : escaped_write(v) /\ Alone
    \/ \E at \in Locs : scope_poison(at) /\ Alone
    \/ \E at \in Locs : scope_drop(at) /\ Alone
    \/ scope_forget /\ Alone
    \/ \E p \in Panics : begin_panic(p) /\ Alone
    \/ catch_unwind /\ Alone

Spec == Init /\ [][Next]_vars

SpecMutex == InitMutex /\ [][NextMutex]_vars

SpecExample == InitExample /\ [][NextExample]_vars

SpecInit == InitFrame /\ [][NextInit]_vars

=============================================================================
